---- MODULE Spec2Model ----
(***************************************************************************)
(* Message-exchange orchestration of the Zuno chat client: the App         *)
(* component's transcript state, its persistence effects, handleSendMessage*)
(* (edit path and chat-stream path), handleNewChat, and the gateway calls  *)
(* startChatStream / processImageTask as far as they drive the handler.    *)
(*                                                                         *)
(* Text is a sequence of one-character strings, so that trimming, the      *)
(* case-insensitive keyword test and concatenation are computed.  An       *)
(* optional value (image?, error | null, a localStorage entry) is a        *)
(* sequence of length 0 or 1.                                              *)
(***************************************************************************)
EXTENDS Integers, Sequences, FiniteSets, TLC

VARIABLES
    messages,      \* App state: Message[]
    isLoading,     \* App state
    isStreaming,   \* App state
    isThinking,    \* App state
    error,         \* App state: string | null
    storage,       \* localStorage entry under STORAGE_KEY
    mounted,       \* the mount effects of App have run
    apiKey,        \* process.env.API_KEY is set
    now,           \* last value read from Date.now()
    calls,         \* handleSendMessage invocations, in call order
    callsLeft,     \* invocations of handleSendMessage the run may still make
    lastOp         \* how handleNewChat returned, if it was the last handler to run

vars == <<messages, isLoading, isStreaming, isThinking, error, storage,
          mounted, apiKey, now, calls, callsLeft, lastOp>>

----------------------------------------------------------------------------
\* Bounds of the model.

MaxCalls == 1
MaxChunks == 2
MaxElapsed == 1
MaxClock == 4

----------------------------------------------------------------------------
\* String literals of the source.

AnalyzeThisImage ==
    <<"A", "n", "a", "l", "y", "z", "e", " ", "t", "h", "i", "s", " ", "i",
    "m", "a", "g", "e">>

ProcessThisImage ==
    <<"P", "r", "o", "c", "e", "s", "s", " ", "t", "h", "i", "s", " ", "i",
    "m", "a", "g", "e">>

AnalyzeUploaded ==
    <<"A", "n", "a", "l", "y", "z", "e", " ", "t", "h", "e", " ", "u", "p",
    "l", "o", "a", "d", "e", "d", " ", "c", "o", "n", "t", "e", "n", "t">>

ErrorPrefix ==
    <<"*", "*", "E", "r", "r", "o", "r", ":", "*", "*", " ">>

UnexpectedError ==
    <<"A", "n", " ", "u", "n", "e", "x", "p", "e", "c", "t", "e", "d", " ",
    "e", "r", "r", "o", "r", " ", "o", "c", "c", "u", "r", "r", "e", "d",
    ".">>

TroubleError ==
    <<"I", "'", "m", " ", "h", "a", "v", "i", "n", "g", " ", "t", "r", "o",
    "u", "b", "l", "e", " ", "p", "r", "o", "c", "e", "s", "s", "i", "n",
    "g", " ", "t", "h", "a", "t", " ", "r", "e", "q", "u", "e", "s", "t",
    ".", " ", "P", "l", "e", "a", "s", "e", " ", "t", "r", "y", " ", "a",
    "g", "a", "i", "n", ".">>

ApiKeyError ==
    <<"A", "P", "I", " ", "K", "e", "y", " ", "i", "s", " ", "n", "o", "t",
    " ", "c", "o", "n", "f", "i", "g", "u", "r", "e", "d", " ", "i", "n",
    " ", "t", "h", "e", " ", "e", "n", "v", "i", "r", "o", "n", "m", "e",
    "n", "t", ".">>

EntityNotFound ==
    <<"e", "n", "t", "i", "t", "y", " ", "w", "a", "s", " ", "n", "o", "t",
    " ", "f", "o", "u", "n", "d">>

InvalidConfigError ==
    <<"T", "h", "e", " ", "A", "P", "I", " ", "c", "o", "n", "f", "i", "g",
    "u", "r", "a", "t", "i", "o", "n", " ", "s", "e", "e", "m", "s", " ",
    "i", "n", "v", "a", "l", "i", "d", ".", " ", "P", "l", "e", "a", "s",
    "e", " ", "c", "h", "e", "c", "k", " ", "y", "o", "u", "r", " ", "p",
    "r", "o", "j", "e", "c", "t", " ", "s", "e", "t", "t", "i", "n", "g",
    "s", ".">>

EditedCaption ==
    <<"H", "e", "r", "e", " ", "i", "s", " ", "y", "o", "u", "r", " ", "e",
    "d", "i", "t", "e", "d", " ", "i", "m", "a", "g", "e", ".">>

Suggestion1 ==
    <<"U", "p", "l", "o", "a", "d", " ", "a", " ", "p", "h", "o", "t", "o",
    " ", "a", "n", "d", " ", "a", "s", "k", " ", "'", "W", "h", "a", "t",
    " ", "i", "s", " ", "i", "n", " ", "t", "h", "i", "s", " ", "i", "m",
    "a", "g", "e", "?", "'">>

Suggestion2 ==
    <<"E", "n", "a", "b", "l", "e", " ", "T", "h", "i", "n", "k", "i", "n",
    "g", " ", "M", "o", "d", "e", " ", "f", "o", "r", " ", "c", "o", "m",
    "p", "l", "e", "x", " ", "c", "o", "d", "i", "n", "g", " ", "h", "e",
    "l", "p">>

----------------------------------------------------------------------------
\* Pure helpers on text.

UpperCase ==
    <<"A", "B", "C", "D", "E", "F", "G", "H", "I", "J", "K", "L", "M", "N",
      "O", "P", "Q", "R", "S", "T", "U", "V", "W", "X", "Y", "Z">>

LowerCase ==
    <<"a", "b", "c", "d", "e", "f", "g", "h", "i", "j", "k", "l", "m", "n",
      "o", "p", "q", "r", "s", "t", "u", "v", "w", "x", "y", "z">>

\* the /i flag: compare letters without regard to case
FoldCase(c) ==
    IF \E k \in 1..Len(UpperCase) : UpperCase[k] = c
    THEN LowerCase[CHOOSE k \in 1..Len(UpperCase) : UpperCase[k] = c]
    ELSE c

FoldText(s) == [k \in 1..Len(s) |-> FoldCase(s[k])]

\* String.prototype.includes / an unanchored regex alternative
Includes(s, w) ==
    \E k \in 1..(Len(s) - Len(w) + 1) : SubSeq(s, k, k + Len(w) - 1) = w

RECURSIVE TrimStart(_)
TrimStart(s) ==
    IF s # <<>> /\ Head(s) = " " THEN TrimStart(Tail(s)) ELSE s

RECURSIVE TrimEnd(_)
TrimEnd(s) ==
    IF s # <<>> /\ s[Len(s)] = " "
    THEN TrimEnd(SubSeq(s, 1, Len(s) - 1))
    ELSE s

\* String.prototype.trim
Trim(s) == TrimEnd(TrimStart(s))

\* the alternatives of /filter|add|remove|change|replace|edit|make/i
EditKeywords ==
    { <<"f", "i", "l", "t", "e", "r">>,
      <<"a", "d", "d">>,
      <<"r", "e", "m", "o", "v", "e">>,
      <<"c", "h", "a", "n", "g", "e">>,
      <<"r", "e", "p", "l", "a", "c", "e">>,
      <<"e", "d", "i", "t">>,
      <<"m", "a", "k", "e">> }

\* a regex alternative matched as the /i flag asks
MatchesKeywordCaseSensitive(content, w) == Includes(content, w)

MatchesKeyword(content, w) == Includes(FoldText(content), w)

\* /filter|add|remove|change|replace|edit|make/i.test(content)
EditKeywordTest(content) == \E w \in EditKeywords : MatchesKeyword(content, w)

\* const isEditRequest = image && !isThinking && /.../i.test(content)
IsEditRequest(content, image, thinking) ==
    image # <<>> /\ ~thinking /\ EditKeywordTest(content)

----------------------------------------------------------------------------
\* Values.

USER == "user"
MODEL == "model"

Date(t) == [ms |-> t]

\* a Date whose time value is NaN
InvalidDate == [ms |-> -1]

\* null in JSON text, and a key that the JSON text does not hold
JsonNull == [null |-> TRUE]
JsonUndefined == [undefined |-> TRUE]

\* Date.prototype.toJSON: ISO-8601 text with millisecond precision, null for
\* an invalid date
ToISO(d) == IF d = InvalidDate THEN JsonNull ELSE [iso |-> d.ms]

\* new Date(value): the instant of an ISO text, the epoch for null, an
\* invalid date for undefined
FromISO(x) ==
    IF x = JsonUndefined THEN InvalidDate
    ELSE IF x = JsonNull THEN Date(0)
    ELSE Date(x.iso)

UploadedImage == [data |-> <<"u1">>, mimeType |-> "image/png"]

\* the optional image of handleSubmit: selectedImage || undefined
Attachments == { <<>>, <<UploadedImage>> }

\* what the textarea may hold when the form is submitted
InputTexts ==
    { <<" ">>,
      <<" ", "E", "d", "i", "t">> }

Suggestions == { Suggestion1, Suggestion2 }

\* the button the runs click: the two differ in their text only
ClickedSuggestions == { Suggestion2 }

ChunkLetters == <<"a", "b", "c", "d">>

\* text of the k-th streamed chunk (c.text || ""): a text of its own, or, for
\* the chunk that opens the stream, no text
Fragments(k) ==
    { <<ChunkLetters[((k - 1) % Len(ChunkLetters)) + 1]>> }
    \cup (IF k = 1 THEN { <<>> } ELSE {})

\* message of an error raised by the provider SDK (undefined/empty included)
ProviderErrors == { <<>>, EntityNotFound }

TextPart(s) == [inlineData |-> <<>>, text |-> s]
ImagePart(d) ==
    [inlineData |-> <<[data |-> d, mimeType |-> "image/png"]>>, text |-> <<>>]

\* response.candidates[0].content.parts of the image model
EditResponses ==
    { <<>>,
      <<ImagePart(<<"e0">>), TextPart(<<"o", "k">>), ImagePart(<<"e1">>)>> }

Elapsed == 0..MaxElapsed

----------------------------------------------------------------------------
\* Persistence: JSON.stringify / JSON.parse of the transcript.

\* a serialization that writes no image key
SerializeMessageDropsImage(m) ==
    [id |-> m.id, role |-> m.role, content |-> m.content,
     timestamp |-> ToISO(m.timestamp), image |-> <<>>]

SerializeMessage(m) ==
    [id |-> m.id, role |-> m.role, content |-> m.content,
     timestamp |-> ToISO(m.timestamp), image |-> m.image]

\* JSON.stringify(messages)
Stringify(msgs) ==
    [parses |-> TRUE, value |-> [k \in 1..Len(msgs) |-> SerializeMessage(msgs[k])]]

\* parsed.map(msg => ({...msg, timestamp: new Date(msg.timestamp)}))
Hydrate(parsed) ==
    [k \in 1..Len(parsed) |->
        [id |-> parsed[k].id, role |-> parsed[k].role,
         content |-> parsed[k].content,
         timestamp |-> FromISO(parsed[k].timestamp),
         image |-> parsed[k].image]]

\* a value that JSON.parse or .map rejects
CorruptBlob == [parses |-> FALSE, value |-> <<>>]

\* a property read from a parsed value that does not hold it
Undefined == "undefined"
UndefinedText == <<Undefined>>

\* the text "[1]": JSON.parse returns an array and .map runs; the element
\* has none of the properties of a Message
MisshapenBlob ==
    [parses |-> TRUE,
     value |-> << [id |-> Undefined, role |-> Undefined,
                   content |-> UndefinedText, timestamp |-> JsonUndefined,
                   image |-> <<>>] >>]

\* a transcript left by an earlier session
EarlierSession ==
    Stringify(<<
        [id |-> "1", role |-> USER, content |-> <<"h", "i">>,
         timestamp |-> Date(1), image |-> <<>>],
        [id |-> "2", role |-> MODEL, content |-> <<"a">>,
         timestamp |-> Date(1), image |-> <<>>] >>)

InitialStorage == { <<>>, <<CorruptBlob>>, <<EarlierSession>> }

\* the effect on [messages] with a write that skips one-message transcripts
PersistEffectSkipsSingle(msgs, store) ==
    IF Len(msgs) > 1 THEN <<Stringify(msgs)>> ELSE store

\* useEffect(() => { if (messages.length > 0) setItem(...) }, [messages])
PersistEffect(msgs, store) ==
    IF Len(msgs) > 0 THEN <<Stringify(msgs)>> ELSE store

\* the effect on mount: getItem, JSON.parse, map, setMessages
LoadHistory(store) ==
    IF store # <<>> /\ store[1].parses THEN Hydrate(store[1].value) ELSE <<>>

----------------------------------------------------------------------------
\* State after construction of App (useState initial values), before the
\* mount effects have run.

\* the clock is past the ids of the earlier session
StartClock == Len(EarlierSession.value) + 1

NoResponse == [text |-> <<>>, image |-> <<>>]

InitFrom(budget, stored) ==
    /\ messages = <<>>
    /\ isLoading = FALSE
    /\ isStreaming = FALSE
    /\ isThinking = FALSE
    /\ error = <<>>
    /\ storage \in stored
    /\ mounted = FALSE
    /\ apiKey \in BOOLEAN
    /\ now = StartClock
    /\ calls = <<>>
    /\ callsLeft = budget
    /\ lastOp = "other"

InitWith(budget) == InitFrom(budget, InitialStorage)

Init == InitWith(MaxCalls)

\* The two effects of the first commit: load the saved history, then (after
\* the re-render that setMessages causes) persist the hydrated transcript.
Mount ==
    /\ ~mounted
    /\ mounted' = TRUE
    /\ LET hydratedMessages == LoadHistory(storage)
       IN /\ messages' = hydratedMessages
          /\ storage' = PersistEffect(hydratedMessages, storage)
    /\ lastOp' = "other"
    /\ UNCHANGED <<isLoading, isStreaming, isThinking, error, apiKey, callsLeft, now, calls>>

----------------------------------------------------------------------------
\* handleSendMessage up to its first await.

Awaiting(pcs) == { i \in DOMAIN calls : calls[i].pc \in pcs }

\* the calls of handleSendMessage that have not returned
InFlight == Awaiting({"startChatStream", "processImageTask", "applyWatermark"})

\* A click or key press is handled once the component is mounted and no
\* promise reaction is queued: without an API key the gateway call is rejected
\* as soon as it is made, and the catch block runs before the next event.
UIEventAllowed == mounted /\ (apiKey \/ InFlight = {})

\* historyForAPI.slice(0, -1) without the slice
SliceWhole(s) == s

\* historyForAPI.slice(0, -1)
SliceButLast(s) == SubSeq(s, 1, Len(s) - 1)

HandleSendMessage(content, image, d) ==
    LET t1 == now + d
        t2 == t1
        userMessage ==
            [id |-> ToString(t1), role |-> USER,
             content |-> IF content # <<>> THEN content
                         ELSE IF image # <<>> THEN AnalyzeThisImage ELSE <<>>,
             timestamp |-> Date(t1), image |-> image]
        modelMessageId == ToString(t2 + 1)
        isEditRequest == IsEditRequest(content, image, isThinking)
        initialModelMessage ==
            [id |-> modelMessageId, role |-> MODEL, content |-> <<>>,
             timestamp |-> Date(t2), image |-> <<>>]
        historyForAPI == Append(messages, userMessage)
        next == IF isEditRequest
                THEN Append(messages, userMessage)
                ELSE Append(Append(messages, userMessage), initialModelMessage)
        call ==
            [pc |-> IF isEditRequest THEN "processImageTask"
                                     ELSE "startChatStream",
             path |-> IF isEditRequest THEN "edit" ELSE "chat",
             content |-> content,
             image |-> image,
             thinking |-> isThinking,
             userId |-> userMessage.id,
             modelMessageId |-> modelMessageId,
             lenBefore |-> Len(messages),
             history |-> IF isEditRequest THEN <<>>
                         ELSE SliceButLast(historyForAPI),
             newMessage |-> IF isEditRequest
                            THEN (IF content # <<>> THEN content ELSE ProcessThisImage)
                            ELSE (IF content # <<>> THEN content ELSE AnalyzeUploaded),
             streamContent |-> <<>>,
             fullText |-> <<>>,
             fragments |-> <<>>,
             response |-> NoResponse,
             outcome |-> "pending"]
    IN /\ mounted
       /\ callsLeft > 0
       /\ callsLeft' = callsLeft - 1
       /\ t2 <= MaxClock
       /\ now' = t2
       /\ error' = <<>>
       /\ messages' = next
       /\ storage' = PersistEffect(next, storage)
       /\ isLoading' = isEditRequest
       /\ isStreaming' = IF isEditRequest THEN isStreaming ELSE TRUE
       /\ calls' = Append(calls, call)
       /\ UNCHANGED <<isThinking, mounted, apiKey>>

\* ChatInput.handleSubmit; isLoading is the prop isLoading || isStreaming
HandleSubmit(input, selectedImage, d) ==
    /\ UIEventAllowed
    /\ (Trim(input) # <<>> \/ selectedImage # <<>>)
    /\ ~(isLoading \/ isStreaming)
    /\ HandleSendMessage(Trim(input), selectedImage, d)
    /\ lastOp' = "other"

ChatInputSubmit ==
    \E input \in InputTexts, selectedImage \in Attachments, d \in Elapsed :
        HandleSubmit(input, selectedImage, d)

\* the suggestion buttons, rendered only while messages.length === 0
SuggestionButton(texts) ==
    \E text \in texts, d \in Elapsed :
        /\ UIEventAllowed
        /\ Len(messages) = 0
        /\ HandleSendMessage(text, <<>>, d)
        /\ lastOp' = "other"

SuggestionClick == SuggestionButton(ClickedSuggestions)

\* onClick={() => setIsThinking(!isThinking)}
ToggleThinking ==
    /\ UIEventAllowed
    /\ isThinking' = ~isThinking
    /\ lastOp' = "other"
    /\ UNCHANGED <<messages, isLoading, isStreaming, error, storage, mounted,
                   apiKey, callsLeft, now, calls>>

----------------------------------------------------------------------------
\* handleNewChat; answer is what confirm() returns when it is shown.

HandleNewChatNoEmptyCheck(answer) ==
    /\ UIEventAllowed
    /\ IF answer
       THEN /\ messages' = <<>>
            /\ error' = <<>>
            /\ storage' = <<>>
            /\ lastOp' = "handleNewChat:confirmed"
       ELSE /\ UNCHANGED <<messages, error, storage>>
            /\ lastOp' = "handleNewChat:declined"
    /\ UNCHANGED <<isLoading, isStreaming, isThinking, mounted, apiKey, callsLeft, now, calls>>

HandleNewChat(answer) ==
    /\ UIEventAllowed
    /\ IF Len(messages) = 0
       THEN /\ UNCHANGED <<messages, error, storage>>
            /\ lastOp' = "handleNewChat:return"
       ELSE IF answer
       THEN /\ messages' = <<>>
            /\ error' = <<>>
            /\ storage' = PersistEffect(<<>>, <<>>)
            /\ lastOp' = "handleNewChat:confirmed"
       ELSE /\ UNCHANGED <<messages, error, storage>>
            /\ lastOp' = "handleNewChat:declined"
    /\ UNCHANGED <<isLoading, isStreaming, isThinking, mounted, apiKey, callsLeft, now, calls>>

NewChat == \E answer \in BOOLEAN : HandleNewChat(answer)

----------------------------------------------------------------------------
\* The gateway calls and the rest of handleSendMessage.

Last(s) == s[Len(s)]

\* history.map(msg => ({ role: ..., parts: [{ text: msg.content }] }))
FormattedHistory(history) ==
    [k \in 1..Len(history) |->
        [role |-> IF history[k].role = USER THEN "user" ELSE "model",
         parts |-> <<TextPart(history[k].content)>>]]

\* the contents of the generateContentStream request: the prior turns, then
\* the new turn with the image part (if any) before the text part
RequestContents(history, newMessage, image) ==
    FormattedHistory(history)
    \o << [role |-> "user",
           parts |-> (IF image # <<>> THEN <<ImagePart(image[1].data)>> ELSE <<>>)
                     \o <<TextPart(newMessage)>>] >>

\* handleSendMessage has returned: its locals are gone, the outcome is kept
Returned(c, outcome) ==
    [pc |-> "done", path |-> c.path, content |-> <<>>, image |-> <<>>,
     thinking |-> FALSE, userId |-> "", modelMessageId |-> "",
     lenBefore |-> 0, history |-> <<>>, newMessage |-> <<>>,
     streamContent |-> <<>>, fullText |-> <<>>, fragments |-> <<>>,
     response |-> NoResponse, outcome |-> outcome]

\* finally { setIsLoading(false) } alone
FinallyKeepsStreaming ==
    /\ isLoading' = FALSE
    /\ UNCHANGED isStreaming

\* finally { setIsLoading(false); setIsStreaming(false); }
Finally ==
    /\ isLoading' = FALSE
    /\ isStreaming' = FALSE

\* prev.map(msg => msg.id === modelMessageId ? {...msg, content} : msg)
OverwriteContent(prev, modelMessageId, streamContent) ==
    [k \in 1..Len(prev) |->
        IF prev[k].id = modelMessageId
        THEN [prev[k] EXCEPT !.content = streamContent]
        ELSE prev[k]]

\* one iteration of "for await (const chunk of streamResponse)" with the
\* onChunk callback of handleSendMessage
StreamChunk ==
    \E i \in Awaiting({"startChatStream"}) :
      \E text \in Fragments(Len(calls[i].fragments) + 1) :
        LET c == calls[i]
            streamContent == c.streamContent \o text
            next == OverwriteContent(messages, c.modelMessageId, streamContent)
        IN /\ apiKey
           /\ Len(c.fragments) < MaxChunks
           /\ calls' = [calls EXCEPT ![i].streamContent = streamContent,
                                     ![i].fullText = c.fullText \o text,
                                     ![i].fragments = Append(c.fragments, text)]
           /\ messages' = next
           /\ storage' = PersistEffect(next, storage)
           /\ lastOp' = "other"
           /\ UNCHANGED <<isLoading, isStreaming, isThinking, error, mounted,
                          apiKey, callsLeft, now>>

\* the stream ends: startChatStream returns fullText, then finally
StreamComplete ==
    \E i \in Awaiting({"startChatStream"}) :
        /\ apiKey
        /\ calls' = [calls EXCEPT ![i] = Returned(calls[i], "ok")]
        /\ Finally
        /\ lastOp' = "other"
        /\ UNCHANGED <<messages, storage, isThinking, error, mounted, apiKey, callsLeft, now>>

\* the message of the error the awaited gateway call rejects with: that of
\* getAIClient, or the provider's as the catch block of the call rethrows it
Thrown(c, e) ==
    IF ~apiKey THEN ApiKeyError
    ELSE IF c.pc = "startChatStream" /\ Includes(e, EntityNotFound)
         THEN InvalidConfigError
         ELSE e

\* setMessages(prev => ...) of the catch block
ReplaceOrAppend(prev, errorMessage) ==
    IF Len(prev) > 0 /\ Last(prev).role = MODEL /\ Last(prev).content = <<>>
    THEN Append(SubSeq(prev, 1, Len(prev) - 1), errorMessage)
    ELSE Append(prev, errorMessage)

\* catch (err) { ... } finally { ... }
Catch(i, message, t) ==
    LET errorMessage ==
            [id |-> ToString(t), role |-> MODEL,
             content |-> ErrorPrefix \o
                         (IF message # <<>> THEN message ELSE TroubleError),
             timestamp |-> Date(t), image |-> <<>>]
        next == ReplaceOrAppend(messages, errorMessage)
    IN /\ error' = <<IF message # <<>> THEN message ELSE UnexpectedError>>
       /\ messages' = next
       /\ storage' = PersistEffect(next, storage)
       /\ Finally
       /\ calls' = [calls EXCEPT ![i] = Returned(calls[i], "failed")]
       /\ now' = t

\* startChatStream or processImageTask rejects
GatewayFail ==
    \E i \in Awaiting({"startChatStream", "processImageTask"}),
       e \in ProviderErrors, d \in Elapsed :
        /\ ~apiKey => e = <<>>
        /\ now + d <= MaxClock
        /\ Catch(i, Thrown(calls[i], e), now + d)
        /\ lastOp' = "other"
        /\ UNCHANGED <<isThinking, mounted, apiKey, callsLeft>>

\* the loop of processImageTask over the response parts
RECURSIVE ScanParts(_, _)
ScanParts(parts, acc) ==
    IF parts = <<>> THEN acc
    ELSE LET part == Head(parts)
         IN ScanParts(Tail(parts),
                IF part.inlineData # <<>>
                THEN [acc EXCEPT !.image = part.inlineData]
                ELSE IF part.text # <<>>
                THEN [acc EXCEPT !.text = acc.text \o part.text]
                ELSE acc)

\* return { text: resultText || "Here is your edited image.", image }
ProcessImageTaskResult(parts) ==
    LET r == ScanParts(parts, NoResponse)
    IN [text |-> IF r.text # <<>> THEN r.text ELSE EditedCaption,
        image |-> r.image]

\* setMessages(prev => [...prev, modelMessage]) and finally
AppendModelMessage(i, response, finalImage, t) ==
    LET modelMessage ==
            [id |-> calls[i].modelMessageId, role |-> MODEL,
             content |-> response.text, timestamp |-> Date(t),
             image |-> finalImage]
        next == Append(messages, modelMessage)
    IN /\ messages' = next
       /\ storage' = PersistEffect(next, storage)
       /\ Finally
       /\ calls' = [calls EXCEPT ![i] = Returned(calls[i], "ok")]
       /\ now' = t

\* processImageTask resolves
EditResolve ==
    \E i \in Awaiting({"processImageTask"}), parts \in EditResponses, d \in Elapsed :
        LET response == ProcessImageTaskResult(parts)
        IN /\ apiKey
           /\ now + d <= MaxClock
           /\ IF response.image # <<>>
              THEN /\ calls' = [calls EXCEPT ![i].pc = "applyWatermark",
                                             ![i].response = response]
                   /\ now' = now + d
                   /\ UNCHANGED <<messages, storage, isLoading, isStreaming>>
              ELSE AppendModelMessage(i, response, <<>>, now + d)
           /\ lastOp' = "other"
           /\ UNCHANGED <<isThinking, error, mounted, apiKey, callsLeft>>

\* applyWatermark resolves: the drawn image, or the input when it fails to load
ApplyWatermark(image, drawn) ==
    IF drawn THEN [image EXCEPT !.data = <<"wm">> \o image.data] ELSE image

WatermarkDone ==
    \E i \in Awaiting({"applyWatermark"}), drawn \in BOOLEAN, d \in Elapsed :
        LET response == calls[i].response
            finalImage == <<ApplyWatermark(response.image[1], drawn)>>
        IN /\ now + d <= MaxClock
           /\ AppendModelMessage(i, response, finalImage, now + d)
           /\ lastOp' = "other"
           /\ UNCHANGED <<isThinking, error, mounted, apiKey, callsLeft>>

----------------------------------------------------------------------------

Next ==
    \/ Mount
    \/ ChatInputSubmit
    \/ SuggestionClick
    \/ ToggleThinking
    \/ NewChat
    \/ StreamChunk
    \/ StreamComplete
    \/ GatewayFail
    \/ EditResolve
    \/ WatermarkDone

Spec == Init /\ [][Next]_vars

\* the same handlers with one more call, so that two calls can overlap
InitOverlap == InitWith(MaxCalls + 1)

OverlapSpec == InitOverlap /\ [][Next]_vars

\* the same handlers started on any stored entry, also one that parses to
\* something other than messages
InitStartup == InitFrom(MaxCalls, InitialStorage \cup { <<MisshapenBlob>> })

StartupSpec == InitStartup /\ [][Next]_vars

----------------------------------------------------------------------------
\* Routing alone: the same handlers with more texts in the textarea, one for
\* each keyword of the pattern, and no gateway progress.

RouteTexts ==
    { <<>>,
      <<" ">>,
      <<"h", "i">>,
      <<"a", "d", " ", "d">>,
      <<"F", "i", "l", "t", "e", "r">>,
      <<"p", "a", "d", "d", "i", "n", "g">>,
      <<"R", "E", "M", "O", "V", "E">>,
      <<"c", "h", "a", "n", "g", "e", "d">>,
      <<"r", "e", "P", "l", "a", "c", "e">>,
      <<" ", "E", "d", "i", "t">>,
      <<"r", "e", "m", "a", "k", "e", " ">> }

RouteSuggestionClick == SuggestionButton(Suggestions)

RouteSubmit ==
    \E input \in RouteTexts, selectedImage \in Attachments, d \in Elapsed :
        HandleSubmit(input, selectedImage, d)

RouteNext ==
    \/ Mount
    \/ ToggleThinking
    \/ RouteSubmit
    \/ RouteSuggestionClick

RouteSpec == Init /\ [][RouteNext]_vars

----------------------------------------------------------------------------
\* Properties.

\* the call returns in this step
Returns(i) == calls[i].pc # "done" /\ calls'[i].pc = "done"

\* the texts handed to handleSendMessage that hold one of the seven keywords
\* in some spelling of upper and lower case
EditIntentTexts ==
    { <<"F", "i", "l", "t", "e", "r">>,
      <<"p", "a", "d", "d", "i", "n", "g">>,
      <<"R", "E", "M", "O", "V", "E">>,
      <<"c", "h", "a", "n", "g", "e", "d">>,
      <<"r", "e", "P", "l", "a", "c", "e">>,
      <<"E", "d", "i", "t">>,
      <<"r", "e", "m", "a", "k", "e">> }

\* C1: a call takes the image-edit path (processImageTask) exactly when an
\* image is attached, thinking was off at the call and the text holds an edit
\* keyword; every other call takes the chat-stream path (startChatStream).
C1_RoutingDecision ==
    \A i \in InFlight :
        LET c == calls[i]
            editExpected ==
                c.image # <<>> /\ ~c.thinking /\ c.content \in EditIntentTexts
        IN /\ editExpected => c.path = "edit" /\ c.pc = "processImageTask"
           /\ ~editExpected => c.path = "chat" /\ c.pc = "startChatStream"

C1_Witness ==
    \E i \in InFlight :
        /\ calls[i].pc = "processImageTask"
        /\ calls[i].content = <<"r", "e", "P", "l", "a", "c", "e">>
        /\ calls[i].image # <<>>
        /\ ~calls[i].thinking

\* C2: when a call of handleSendMessage returns, the transcript is exactly two
\* entries longer than before the call: one USER entry, then one MODEL entry.
C2_TwoEntriesPerSubmission ==
    [][\A i \in DOMAIN calls :
          Returns(i) =>
            LET n == calls[i].lenBefore
            IN /\ Len(messages') = n + 2
               /\ messages'[n + 1].role = USER
               /\ messages'[n + 2].role = MODEL]_vars

EmptyModelMessage(m) == m.role = MODEL /\ m.content = <<>> /\ m.image = <<>>

AtRest ==
    /\ calls # <<>>
    /\ InFlight = {}
    /\ ~isLoading
    /\ ~isStreaming

\* C3: with no submission in flight after a submit has finished, neither the
\* transcript nor the persisted copy holds a MODEL message with empty content
\* and no image.
C3_NoEmptyModelMessageAtRest ==
    AtRest =>
        /\ \A k \in DOMAIN messages : ~EmptyModelMessage(messages[k])
        /\ storage # <<>> =>
             \A k \in DOMAIN storage[1].value :
                ~EmptyModelMessage(storage[1].value[k])

RECURSIVE Concat(_)
Concat(fs) == IF fs = <<>> THEN <<>> ELSE Head(fs) \o Concat(Tail(fs))

ModelMessagesOf(msgs, id) ==
    { k \in DOMAIN msgs : msgs[k].role = MODEL /\ msgs[k].id = id }

\* C4: after the k-th fragment of a stream the placeholder holds f1+...+fk,
\* and when the stream completes the transcript holds exactly one MODEL
\* message of that submission, whose content is f1+...+fn, the text that
\* startChatStream returns.
C4_StreamAccumulation ==
    [][\A i \in DOMAIN calls :
          LET c == calls[i]
              id == c.modelMessageId
          IN /\ (c.pc = "startChatStream" /\ calls'[i].pc = "startChatStream"
                  /\ Len(calls'[i].fragments) = Len(c.fragments) + 1)
                => /\ Cardinality(ModelMessagesOf(messages', id)) = 1
                   /\ \A k \in ModelMessagesOf(messages', id) :
                        messages'[k].content = Concat(calls'[i].fragments)
             /\ (c.pc = "startChatStream" /\ Returns(i)
                  /\ calls'[i].outcome = "ok")
                => /\ Cardinality(ModelMessagesOf(messages', id)) = 1
                   /\ \A k \in ModelMessagesOf(messages', id) :
                        /\ messages'[k].content = Concat(c.fragments)
                        /\ messages'[k].content = c.fullText]_vars

Failed(i) == Returns(i) /\ calls'[i].outcome = "failed"

IsErrorMessage(m) ==
    /\ m.role = MODEL
    /\ Len(m.content) > Len(ErrorPrefix)
    /\ SubSeq(m.content, 1, Len(ErrorPrefix)) = ErrorPrefix

\* C5: when a chat-stream call fails before any fragment arrived, the error
\* message takes the placeholder's place as the last entry: the transcript is
\* as long as right before the failure and the earlier entries are unchanged.
C5_ErrorReplacesPlaceholder ==
    [][\A i \in DOMAIN calls :
          (calls[i].pc = "startChatStream" /\ calls[i].fragments = <<>>
            /\ Failed(i))
          => /\ Len(messages') = Len(messages)
             /\ Len(messages') > 0
             /\ IsErrorMessage(Last(messages'))
             /\ SubSeq(messages', 1, Len(messages') - 1)
                  = SubSeq(messages, 1, Len(messages) - 1)]_vars

\* C6: when an image-edit call fails, the error message is appended as a new
\* last entry: the transcript is one longer than right after the USER message
\* was appended, and the USER message and the earlier entries are unchanged.
C6_ErrorAppendedOnEditPath ==
    [][\A i \in DOMAIN calls :
          (calls[i].pc = "processImageTask" /\ Failed(i))
          => LET n == calls[i].lenBefore + 1
             IN /\ Len(messages') = n + 1
                /\ IsErrorMessage(Last(messages'))
                /\ Len(messages) >= n
                /\ messages[n].id = calls[i].userId
                /\ messages[n].role = USER
                /\ SubSeq(messages', 1, n) = SubSeq(messages, 1, n)]_vars

\* C7: at most one call of handleSendMessage is in flight at any time.
C7_AtMostOneInFlight == Cardinality(InFlight) <= 1

\* C8: whenever the transcript is non-empty and the persistence effect has
\* run, the entry under the storage key is the serialization of the whole
\* current transcript.
C8_PersistedCopyIsCurrent ==
    (mounted /\ Len(messages) > 0) => storage = <<Stringify(messages)>>

C8_Witness ==
    /\ \E i \in InFlight : Len(calls[i].fragments) = 2
    /\ \E k \in DOMAIN messages :
          /\ messages[k].role = MODEL
          /\ messages[k].content = <<"a", "b">>
    /\ storage = <<Stringify(messages)>>

\* C9: a step in which a call of handleSendMessage returns, on either path and
\* with either outcome, leaves isLoading and isStreaming false.
C9_FlagsResetOnReturn ==
    [][\A i \in DOMAIN calls :
          Returns(i) => (~isLoading' /\ ~isStreaming')]_vars

C9_Witness ==
    /\ \E i \in DOMAIN calls :
          /\ calls[i].pc = "done"
          /\ calls[i].path = "chat"
          /\ calls[i].outcome = "failed"
    /\ error # <<>>
    /\ ~isLoading
    /\ ~isStreaming

NewChatReturns ==
    {"handleNewChat:return", "handleNewChat:declined", "handleNewChat:confirmed"}

\* C10: handleNewChat on an empty transcript returns without a prompt and
\* leaves the transcript, the error field and the stored entry as they were;
\* a declined prompt leaves the transcript and the stored entry as they were.
C10_NewChatNoOp ==
    [][/\ (lastOp' \in NewChatReturns /\ Len(messages) = 0)
          => /\ lastOp' = "handleNewChat:return"
             /\ UNCHANGED <<messages, error, storage>>
       /\ (lastOp' = "handleNewChat:declined")
          => /\ Len(messages) > 0
             /\ UNCHANGED <<messages, storage>>]_vars

C10_Witness ==
    /\ lastOp = "handleNewChat:return"
    /\ messages = <<>>
    /\ storage = <<CorruptBlob>>

ParsesToMessages(blob) ==
    /\ blob.parses
    /\ \A k \in DOMAIN blob.value :
          /\ blob.value[k].role \in {USER, MODEL}
          /\ blob.value[k].timestamp \notin {JsonNull, JsonUndefined}

\* C12: the mount effects leave the transcript empty when there is no stored
\* entry; when the stored entry does not parse to a sequence of messages they
\* leave the transcript empty, the error field null and the stored entry as
\* it was.
C12_UnreadableEntryIgnored ==
    [][(~mounted /\ mounted')
       => /\ storage = <<>> => messages' = <<>>
          /\ (storage # <<>> /\ ~ParsesToMessages(storage[1]))
             => /\ messages' = <<>>
                /\ error' = <<>>
                /\ storage' = storage]_vars

\* C13: the messages of the transcript have pairwise distinct ids in every
\* reachable state.
C13_DistinctIds ==
    \A j, k \in DOMAIN messages :
        j # k => messages[j].id # messages[k].id

\* the call starts in this step
Starts(i) == i \in DOMAIN calls' /\ i \notin DOMAIN calls

\* C14: on the chat-stream path the history handed to startChatStream is the
\* transcript as it was before the USER message of the submission was
\* appended, without that message and without the placeholder, and the new
\* turn is the user's text, or "Analyze the uploaded content" for no text;
\* the request holds one turn per entry of that history and then the new turn.
C14_HistoryIsPriorTranscript ==
    [][\A i \in DOMAIN calls' :
          (Starts(i) /\ calls'[i].path = "chat")
          => LET c == calls'[i]
                 n == Len(messages)
                 contents == RequestContents(c.history, c.newMessage, c.image)
             IN /\ c.history = messages
                /\ Len(messages') = n + 2
                /\ SubSeq(messages', 1, n) = c.history
                /\ messages'[n + 1].role = USER
                /\ messages'[n + 1].id = c.userId
                /\ messages'[n + 2].role = MODEL
                /\ messages'[n + 2].id = c.modelMessageId
                /\ c.newMessage = (IF c.content # <<>> THEN c.content
                                   ELSE AnalyzeUploaded)
                /\ Len(contents) = n + 1
                /\ \A k \in 1..n :
                      contents[k].parts = <<TextPart(messages[k].content)>>
                /\ Last(Last(contents).parts) = TextPart(c.newMessage)]_vars

C14_Witness ==
    \E i \in DOMAIN calls :
        /\ calls[i].pc = "startChatStream"
        /\ Len(calls[i].history) = 2
        /\ calls[i].content = <<>>
        /\ calls[i].image # <<>>
        /\ calls[i].newMessage = AnalyzeUploaded
        /\ Len(messages) = 4

\* a fragment of call i arrives in this step
FragmentArrives(i) ==
    /\ calls[i].pc = "startChatStream"
    /\ Len(calls'[i].fragments) = Len(calls[i].fragments) + 1

\* entry k of the transcript is the placeholder that call i appended
IsPlaceholderOf(k, i) ==
    /\ k = calls[i].lenBefore + 2
    /\ messages[k].role = MODEL
    /\ messages[k].id = calls[i].modelMessageId

Min(a, b) == IF a < b THEN a ELSE b

\* C15: a fragment leaves the length and order of the transcript and every
\* entry other than the placeholder of its own submission as they were, and
\* changes nothing but the content of that placeholder; a step without a
\* fragment changes no entry that stays in the transcript, unless it puts an
\* error message in the place of an empty placeholder at the end.
C15_OnlyPlaceholderContentChanges ==
    [][/\ \A i \in DOMAIN calls :
            FragmentArrives(i)
            => /\ Len(messages') = Len(messages)
               /\ \A k \in DOMAIN messages :
                     IF IsPlaceholderOf(k, i)
                     THEN messages'[k] =
                            [messages[k] EXCEPT !.content = messages'[k].content]
                     ELSE messages'[k] = messages[k]
       /\ (\A i \in DOMAIN calls : ~FragmentArrives(i))
          => \A k \in 1..Min(Len(messages), Len(messages')) :
                \/ messages'[k] = messages[k]
                \/ /\ k = Len(messages)
                   /\ Len(messages') = Len(messages)
                   /\ EmptyModelMessage(messages[k])
                   /\ IsErrorMessage(messages'[k])]_vars

\* the transcript is empty and nothing is stored: the state that a confirmed
\* New Chat leaves (and that of a first start with nothing stored)
Cleared == mounted /\ messages = <<>> /\ storage = <<>>

\* C16: from a confirmed New Chat until the next call of handleSendMessage
\* the transcript stays empty and the stored entry stays absent, whatever a
\* gateway call that was started earlier does; a transcript never begins
\* with a MODEL message.
C16_ClearedUntilNextSubmit ==
    [][/\ (Cleared /\ \A i \in DOMAIN calls' : ~Starts(i))
          => (messages' = <<>> /\ storage' = <<>>)
       /\ (Len(messages') > 0 /\ \E i \in DOMAIN calls' : Starts(i))
          => messages'[1].role = USER
       /\ (Len(messages') > 0 /\ Len(messages) > 0
           /\ messages[1].role = USER)
          => messages'[1].role = USER]_vars

====
